---- MODULE Spec2Model ----
(***************************************************************************)
(* Model of StripeService (src/src/StripeService.ts) and of the live       *)
(* integration suite that constructs it (src/unnamed/part_001).            *)
(*                                                                         *)
(* JavaScript runs each async function synchronously up to its first       *)
(* await, so every action below is one such run-to-suspension step.        *)
(***************************************************************************)
EXTENDS Integers, Sequences, FiniteSets, TLC

\* ---------------------------------------------------------------- bounds
MaxCalls == 2

MaxProbes == 2

MaxSessions == 2

\* completion events delivered back to handleWebhook in the checkout flow
MaxDeliveries == 1

MaxFetches == 1

MaxPortals == 1

\* operations other than handleWebhook run between two deliveries
MaxOtherOps == 1

\* products in the provider's catalog
MaxProducts == 2

\* ticks of the clock
MaxTime == 2

Calls == 1..MaxCalls

Probes == 1..MaxProbes

Fetches == 1..MaxFetches

\* ------------------------------------------------------------ the state
VARIABLES
    env,          \* process.env.STRIPE_SECRET_KEY as the test file sees it
    service,      \* the adapter the caller holds after `new StripeService`
    ctor,         \* outcome of the constructor call
    consoleLog,   \* lines written by console.log
    calls,        \* handleWebhook invocations
    handlerLog,   \* invocations of the caller-supplied onFulfillment
    probes,       \* verifyConnection invocations
    checkouts,    \* createCheckoutSession invocations
    requests,     \* checkout.sessions.create requests received by the provider
    suite,        \* the integration test file: describe block and its tests
    now,          \* the clock constructEvent compares signature timestamps with
    fetches,      \* fetchActiveProducts invocations
    portals       \* createPortalSession invocations

vars == <<env, service, ctor, consoleLog, calls, handlerLog, probes,
          checkouts, requests, suite, now, fetches, portals>>

\* ------------------------------------------------------- strings as data
\* API keys are character sequences so that startsWith is a real prefix test.
SkPrefix == <<"s", "k", "_">>

SkTestKey == <<"s", "k", "_", "t">>

PkKey == <<"p", "k", "_", "t">>

ShortKey == <<"s", "k">>

DummyKey == <<"d", "u", "m", "m", "y", "_", "k", "e", "y">>

EmptyKey == << >>

ApiKeys == {SkTestKey, PkKey, ShortKey, DummyKey, EmptyKey}

Secrets == {"whsec_1", "whsec_2"}

AppVersions == {"1.0.2"}

StripeVersions == {"2025-01-27.acacia"}

Configs == [apiKey : ApiKeys, webhookSecret : Secrets,
            appVersion : AppVersions, requiredStripeVersion : StripeVersions]

NoConfig == [apiKey |-> EmptyKey, webhookSecret |-> "", appVersion |-> "",
             requiredStripeVersion |-> ""]

\* String.prototype.startsWith
StartsWith(s, prefix) ==
    /\ Len(s) >= Len(prefix)
    /\ SubSeq(s, 1, Len(prefix)) = prefix

\* --------------------------------------------------------- webhook data
UserIds == {"", "u1", "u2"}

EventTypes == {"checkout.session.completed", "invoice.paid"}

\* session.metadata: null, or a string-to-string mapping (set of pairs)
MetadataValues ==
    {[isNull |-> TRUE, entries |-> {}], [isNull |-> FALSE, entries |-> {}]}
    \cup {[isNull |-> FALSE, entries |-> {<<"userId", u>>}] : u \in UserIds}

\* the id the provider gives the k-th session created through the adapter
SessionId(k) == "cs_" \o ToString(k)

\* sessions created outside the adapter (dashboard, other integrations)
Sessions == [id : {"cs_ext"}, metadata : MetadataValues]

Events == [type : EventTypes, object : Sessions]

\* the raw request body is the serialized event
Bodies == [raw : Events]

NoEvent == [type |-> "none", object |-> [id |-> "none", metadata |-> [isNull |-> TRUE, entries |-> {}]]]

NoBody == [raw |-> NoEvent]

\* keyed hash over timestamp and payload
Hmac(secret, t, body) == <<secret, t, body>>

\* the stripe-signature header the sender computes
SignatureHeader(secret, t, body) == [t |-> t, v1 |-> Hmac(secret, t, body)]

NoSignature == [t |-> -1, v1 |-> <<"", -1, NoBody>>]

\* a body altered in transit: the event type is flipped
Tamper(body) ==
    [raw |-> [body.raw EXCEPT !.type =
        IF @ = "invoice.paid" THEN "checkout.session.completed" ELSE "invoice.paid"]]

\* the signature headers a request carrying `body` may arrive with
SignaturesFor(body) ==
    {SignatureHeader(s, now, body) : s \in Secrets}
    \cup {SignatureHeader("whsec_1", now - 1, body),
          SignatureHeader("whsec_1", now, Tamper(body))}

\* the timestamp check of constructEvent; one tick of the clock is longer
\* than the tolerance window
WithinTolerance(t, at) == at <= t

\* mutation: a signature that already verified once is refused as a replay
ConstructEvent_ReplayRefused(body, signature, secret) ==
    IF /\ signature.v1 = Hmac(secret, signature.t, body)
       /\ WithinTolerance(signature.t, now)
       /\ ~\E d \in Calls : /\ calls[d].signature = signature
                            /\ calls[d].pc # "idle"
                            /\ calls[d].error # "SignatureVerificationError"
    THEN [ok |-> TRUE, event |-> body.raw]
    ELSE [ok |-> FALSE, event |-> NoEvent]

\* stripe.webhooks.constructEvent(body, signature, secret)
ConstructEvent(body, signature, secret) ==
    IF /\ signature.v1 = Hmac(secret, signature.t, body)
       /\ WithinTolerance(signature.t, now)
    THEN [ok |-> TRUE, event |-> body.raw]
    ELSE [ok |-> FALSE, event |-> NoEvent]

\* session.metadata?.userId : undefined when metadata is null or has no entry
MetadataUserId(session) ==
    IF /\ ~session.metadata.isNull
       /\ \E p \in session.metadata.entries : p[1] = "userId"
    THEN [defined |-> TRUE,
          val |-> (CHOOSE p \in session.metadata.entries : p[1] = "userId")[2]]
    ELSE [defined |-> FALSE, val |-> ""]

\* JavaScript truthiness of a string-or-undefined value
Truthy(v) == v.defined /\ v.val # ""

HandlerErrors == {"FirestoreUnavailable", "RoleGrantFailed"}


NoService == [exists |-> FALSE, config |-> NoConfig]

IdleCall ==
    [pc |-> "idle", at |-> 0, body |-> NoBody, signature |-> NoSignature,
     event |-> NoEvent, returned |-> NoEvent, error |-> "none",
     handler |-> "none", handlerError |-> "none"]

\* an environment variable: unset (undefined) or set to a string
KeyUnset == [set |-> FALSE, val |-> EmptyKey]

SecretUnset == [set |-> FALSE, val |-> ""]

EnvUnset == [STRIPE_SECRET_KEY |-> KeyUnset, STRIPE_WEBHOOK_SECRET |-> SecretUnset]

NoThrown == [nullish |-> FALSE, message |-> [defined |-> FALSE, val |-> ""]]

NoResult ==
    [status |-> "none", apiVersion |-> "", appVersion |-> "",
     message |-> [defined |-> FALSE, val |-> ""]]

IdleProbe ==
    [pc |-> "idle", balance |-> "none", thrown |-> NoThrown,
     result |-> NoResult, error |-> "none"]

\* ---------------------------------------------------- catalog data
NoPrice == [isNull |-> TRUE, id |-> "", unit_amount |-> [isNull |-> TRUE, val |-> 0], currency |-> ""]

\* a product's expanded default_price: null, or a Price whose unit_amount
\* is an integer of minor units or null
Prices ==
    {NoPrice,
     [isNull |-> FALSE, id |-> "price_usd", unit_amount |-> [isNull |-> FALSE, val |-> 2599], currency |-> "usd"],
     [isNull |-> FALSE, id |-> "price_eur", unit_amount |-> [isNull |-> FALSE, val |-> 1050], currency |-> "eur"],
     [isNull |-> FALSE, id |-> "price_tier", unit_amount |-> [isNull |-> TRUE, val |-> 0], currency |-> "usd"]}

Products == [id : {"prod_gbedu"}, name : {"Gbedu"}, active : BOOLEAN, default_price : Prices]

\* the provider's catalog at the time of a call, in listing order
Catalogs ==
    UNION {[1..n -> Products] : n \in 0..MaxProducts}

IdleFetch ==
    [pc |-> "idle", list |-> "none", catalog |-> << >>, data |-> << >>,
     result |-> << >>, error |-> "none"]

NumTests == 5

Tests == 1..NumTests

SuiteNotRun ==
    [state |-> "notrun", itIfKey |-> "none", error |-> "none",
     config |-> NoConfig, tests |-> [i \in Tests |-> "unregistered"]]

InitRest ==
    /\ service = NoService
    /\ ctor = [state |-> "none", thrown |-> "none", config |-> NoConfig]
    /\ consoleLog = << >>
    /\ calls = [c \in Calls |-> IdleCall]
    /\ handlerLog = << >>
    /\ probes = [p \in Probes |-> IdleProbe]
    /\ checkouts = << >>
    /\ requests = << >>
    /\ suite = SuiteNotRun
    /\ now = 1
    /\ fetches = [f \in Fetches |-> IdleFetch]
    /\ portals = << >>

Init ==
    /\ env = EnvUnset
    /\ InitRest

\* ------------------------------------------------------- construction
\* new Stripe(apiKey, ...): SDK builds that check the key reject an empty one
SdkCtorOutcomes(apiKey) ==
    IF apiKey = EmptyKey THEN {"ok", "throws"} ELSE {"ok"}

\* mutation: the prefix check is dropped, only the diagnostic line remains
ValidateBootstrap_NoCheck(config) ==
    [log |-> <<config.appVersion>>, thrown |-> "none"]

\* validateBootstrap(): the diagnostic line, then the prefix check
ValidateBootstrap(config) ==
    [log |-> <<config.appVersion>>,
     thrown |-> IF ~StartsWith(config.apiKey, SkPrefix)
                THEN "InvalidSecretKey" ELSE "none"]

\* constructor(config)
Constructor(config, sdk) ==
    IF sdk = "throws"
    THEN [thrown |-> "StripeSdkError", log |-> << >>]
    ELSE ValidateBootstrap(config)

\* `new StripeService(config)` evaluated by the host application
NewStripeService(config, sdk) ==
    /\ ctor.state = "none"
    /\ sdk \in SdkCtorOutcomes(config.apiKey)
    /\ LET r == Constructor(config, sdk)
       IN /\ consoleLog' = consoleLog \o r.log
          /\ ctor' = [state |-> IF r.thrown = "none" THEN "ok" ELSE "threw",
                      thrown |-> r.thrown, config |-> config]
          /\ service' = IF r.thrown = "none"
                        THEN [exists |-> TRUE, config |-> config]
                        ELSE service
    /\ UNCHANGED <<env, now, portals, fetches, suite, probes, checkouts, requests, calls, handlerLog>>

\* ------------------------------------------------------ handleWebhook
\* mutation: the failure of constructEvent is swallowed
VerificationThrows_Swallowed(v) == FALSE

\* line 100: constructEvent throws on a failed verification
VerificationThrows(v) == ~v.ok

\* mutation: the event type is not looked at
Fulfillable_AnyType(event) == Truthy(MetadataUserId(event.object))

\* lines 103-107: the event type filter and the userId guard
Fulfillable(event) ==
    /\ event.type = "checkout.session.completed"
    /\ Truthy(MetadataUserId(event.object))

\* mutation: the session id is passed where the userId belongs
FulfillmentArgs_SessionId(event) ==
    [userId |-> event.object.id, session |-> event.object]

\* line 109: the arguments handed to onFulfillment
FulfillmentArgs(event) ==
    [userId |-> MetadataUserId(event.object).val, session |-> event.object]

\* line 112: return event
ReturnValue(event) == event

\* mutation: the handler's failure is caught and the event returned
OnHandlerRejected_Swallowed(call) ==
    [call EXCEPT !.pc = "resolved", !.returned = call.event]

\* line 109: a rejected onFulfillment promise rethrows at the await
OnHandlerRejected(call) ==
    [call EXCEPT !.pc = "rejected", !.error = call.handlerError]

CanStart(c) ==
    /\ service.exists
    /\ calls[c].pc = "idle"
    /\ \A d \in Calls : d < c => calls[d].pc # "idle"

\* handleWebhook up to the throw of constructEvent
HandleWebhookBadSignature(c, body, signature) ==
    /\ CanStart(c)
    /\ LET v == ConstructEvent(body, signature, service.config.webhookSecret)
       IN /\ VerificationThrows(v)
          /\ calls' = [calls EXCEPT ![c] =
                 [IdleCall EXCEPT !.pc = "rejected", !.at = now, !.body = body,
                                  !.signature = signature,
                                  !.error = "SignatureVerificationError"]]
    /\ UNCHANGED <<env, now, portals, fetches, suite, probes, checkouts, requests, service, ctor, consoleLog, handlerLog>>

\* handleWebhook for an event that is not dispatched: runs to the return
HandleWebhookFiltered(c, body, signature) ==
    /\ CanStart(c)
    /\ LET v == ConstructEvent(body, signature, service.config.webhookSecret)
       IN /\ ~VerificationThrows(v)
          /\ ~Fulfillable(v.event)
          /\ calls' = [calls EXCEPT ![c] =
                 [IdleCall EXCEPT !.pc = "resolved", !.at = now, !.body = body,
                                  !.signature = signature, !.event = v.event,
                                  !.returned = ReturnValue(v.event)]]
    /\ UNCHANGED <<env, now, portals, fetches, suite, probes, checkouts, requests, service, ctor, consoleLog, handlerLog>>

\* mutation: onFulfillment is called without await, the event returned at once
HandleWebhookFulfill_NoAwait(c, body, signature) ==
    /\ CanStart(c)
    /\ LET v == ConstructEvent(body, signature, service.config.webhookSecret)
       IN /\ ~VerificationThrows(v)
          /\ Fulfillable(v.event)
          /\ calls' = [calls EXCEPT ![c] =
                 [IdleCall EXCEPT !.pc = "resolved", !.at = now, !.body = body,
                                  !.signature = signature, !.event = v.event,
                                  !.returned = ReturnValue(v.event),
                                  !.handler = "running"]]
          /\ handlerLog' = Append(handlerLog,
                 [call |-> c, userId |-> FulfillmentArgs(v.event).userId,
                  session |-> FulfillmentArgs(v.event).session])
    /\ UNCHANGED <<env, now, portals, fetches, suite, probes, checkouts, requests, service, ctor, consoleLog>>

\* mutation: a session already fulfilled by an earlier delivery is skipped
HandleWebhookFulfill_Dedup(c, body, signature) ==
    /\ CanStart(c)
    /\ LET v == ConstructEvent(body, signature, service.config.webhookSecret)
           seen == \E i \in 1..Len(handlerLog) : handlerLog[i].session = v.event.object
       IN /\ ~VerificationThrows(v)
          /\ Fulfillable(v.event)
          /\ calls' = [calls EXCEPT ![c] =
                 [IdleCall EXCEPT !.pc = IF seen THEN "resolved" ELSE "awaiting", !.at = now,
                                  !.body = body,
                                  !.signature = signature, !.event = v.event,
                                  !.returned = IF seen THEN ReturnValue(v.event) ELSE NoEvent,
                                  !.handler = IF seen THEN "none" ELSE "running"]]
          /\ handlerLog' = IF seen THEN handlerLog ELSE Append(handlerLog,
                 [call |-> c, userId |-> FulfillmentArgs(v.event).userId,
                  session |-> FulfillmentArgs(v.event).session])
    /\ UNCHANGED <<env, now, portals, fetches, suite, probes, checkouts, requests, service, ctor, consoleLog>>

\* handleWebhook up to `await onFulfillment(userId, session)`
HandleWebhookFulfill(c, body, signature) ==
    /\ CanStart(c)
    /\ LET v == ConstructEvent(body, signature, service.config.webhookSecret)
       IN /\ ~VerificationThrows(v)
          /\ Fulfillable(v.event)
          /\ calls' = [calls EXCEPT ![c] =
                 [IdleCall EXCEPT !.pc = "awaiting", !.at = now, !.body = body,
                                  !.signature = signature, !.event = v.event,
                                  !.handler = "running"]]
          /\ handlerLog' = Append(handlerLog,
                 [call |-> c, userId |-> FulfillmentArgs(v.event).userId,
                  session |-> FulfillmentArgs(v.event).session])
    /\ UNCHANGED <<env, now, portals, fetches, suite, probes, checkouts, requests, service, ctor, consoleLog>>

\* the caller's handler settles its promise
HandlerFulfills(c) ==
    /\ calls[c].handler = "running"
    /\ calls' = [calls EXCEPT ![c].handler = "fulfilled"]
    /\ UNCHANGED <<env, now, portals, fetches, suite, probes, checkouts, requests, service, ctor, consoleLog, handlerLog>>

HandlerRejects(c, e) ==
    /\ calls[c].handler = "running"
    /\ calls' = [calls EXCEPT ![c].handler = "rejected", ![c].handlerError = e]
    /\ UNCHANGED <<env, now, portals, fetches, suite, probes, checkouts, requests, service, ctor, consoleLog, handlerLog>>

\* handleWebhook resumes after the await: return event, or rethrow
HandleWebhookResume(c) ==
    /\ calls[c].pc = "awaiting"
    /\ calls[c].handler \in {"fulfilled", "rejected"}
    /\ calls' = [calls EXCEPT ![c] =
           IF calls[c].handler = "rejected"
           THEN OnHandlerRejected(calls[c])
           ELSE [calls[c] EXCEPT !.pc = "resolved",
                                 !.returned = ReturnValue(calls[c].event)]]
    /\ UNCHANGED <<env, now, portals, fetches, suite, probes, checkouts, requests, service, ctor, consoleLog, handlerLog>>

\* --------------------------------------------------- verifyConnection
\* what stripe.balance.retrieve() may reject with: an Error with a message,
\* an Error with an empty message, a value with no message property, or
\* null/undefined
ThrownValues ==
    {[nullish |-> FALSE, message |-> [defined |-> TRUE, val |-> "Invalid API Key provided"]],
     [nullish |-> FALSE, message |-> [defined |-> TRUE, val |-> ""]],
     [nullish |-> FALSE, message |-> [defined |-> FALSE, val |-> ""]],
     [nullish |-> TRUE, message |-> [defined |-> FALSE, val |-> ""]]}

\* lines 138-142: the value returned from the try block
VerifyConnectionTry(config) ==
    [pc |-> "returned", error |-> "none",
     result |-> [status |-> "connected",
                 apiVersion |-> config.requiredStripeVersion,
                 appVersion |-> config.appVersion,
                 message |-> [defined |-> FALSE, val |-> ""]]]

\* lines 143-148: the catch block; reading .message of null or undefined
\* throws a TypeError out of the catch block
VerifyConnectionCatch(error) ==
    IF error.nullish
    THEN [pc |-> "threw", error |-> "TypeError", result |-> NoResult]
    ELSE [pc |-> "returned", error |-> "none",
          result |-> [status |-> "error", apiVersion |-> "", appVersion |-> "",
                      message |-> error.message]]

\* verifyConnection up to `await this.stripe.balance.retrieve()`
VerifyConnectionStart(p) ==
    /\ service.exists
    /\ probes[p].pc = "idle"
    /\ \A q \in Probes : q < p => probes[q].pc # "idle"
    /\ probes' = [probes EXCEPT ![p].pc = "awaiting", ![p].balance = "pending"]
    /\ UNCHANGED <<env, now, portals, fetches, suite, service, ctor, consoleLog, calls, handlerLog,
                   checkouts, requests>>

\* the provider answers the balance request
BalanceResolves(p) ==
    /\ probes[p].balance = "pending"
    /\ probes' = [probes EXCEPT ![p].balance = "resolved"]
    /\ UNCHANGED <<env, now, portals, fetches, suite, service, ctor, consoleLog, calls, handlerLog,
                   checkouts, requests>>

BalanceRejects(p, thrown) ==
    /\ probes[p].balance = "pending"
    /\ probes' = [probes EXCEPT ![p].balance = "rejected", ![p].thrown = thrown]
    /\ UNCHANGED <<env, now, portals, fetches, suite, service, ctor, consoleLog, calls, handlerLog,
                   checkouts, requests>>

\* verifyConnection resumes after the await, in the try or the catch block
VerifyConnectionResume(p) ==
    /\ probes[p].pc = "awaiting"
    /\ probes[p].balance \in {"resolved", "rejected"}
    /\ LET r == IF probes[p].balance = "resolved"
                THEN VerifyConnectionTry(service.config)
                ELSE VerifyConnectionCatch(probes[p].thrown)
       IN probes' = [probes EXCEPT ![p].pc = r.pc, ![p].error = r.error,
                                   ![p].result = r.result]
    /\ UNCHANGED <<env, now, portals, fetches, suite, service, ctor, consoleLog, calls, handlerLog,
                   checkouts, requests>>

\* ------------------------------------------------ fetchActiveProducts
\* products.list({ active: true, ... }): the provider returns the active
\* products of its catalog
ProductsList(catalog) == SelectSeq(catalog, LAMBDA product : product.active)

\* unit_amount / 100 as a decimal number with two places; null / 100 is 0
MajorUnits(unit_amount) ==
    IF unit_amount.isNull
    THEN [units |-> 0, hundredths |-> 0]
    ELSE [units |-> unit_amount.val \div 100, hundredths |-> unit_amount.val % 100]

\* lines 58-66: the entry a product is mapped to
MapProduct(product) ==
    [id |-> product.id,
     name |-> product.name,
     price |-> MajorUnits(product.default_price.unit_amount),
     priceId |-> product.default_price.id,
     currency |-> "usd"]

\* lines 58-66: products.data.map(...); reading unit_amount of a null
\* default_price throws a TypeError
MapProducts(data) ==
    IF \E k \in 1..Len(data) : data[k].default_price.isNull
    THEN [pc |-> "rejected", error |-> "TypeError", result |-> << >>]
    ELSE [pc |-> "resolved", error |-> "none",
          result |-> [k \in 1..Len(data) |-> MapProduct(data[k])]]

\* fetchActiveProducts up to `await this.stripe.products.list`
FetchActiveProductsStart(f) ==
    /\ service.exists
    /\ fetches[f].pc = "idle"
    /\ \A g \in Fetches : g < f => fetches[g].pc # "idle"
    /\ fetches' = [fetches EXCEPT ![f].pc = "awaiting", ![f].list = "pending"]
    /\ UNCHANGED <<env, now, portals, suite, service, ctor, consoleLog, calls, handlerLog,
                   probes, checkouts, requests>>

\* the provider answers with the active products of its catalog
ProductsListResolves(f, catalog) ==
    /\ fetches[f].list = "pending"
    /\ fetches' = [fetches EXCEPT ![f].list = "resolved", ![f].catalog = catalog,
                                  ![f].data = ProductsList(catalog)]
    /\ UNCHANGED <<env, now, portals, suite, service, ctor, consoleLog, calls, handlerLog,
                   probes, checkouts, requests>>

ProductsListRejects(f) ==
    /\ fetches[f].list = "pending"
    /\ fetches' = [fetches EXCEPT ![f].list = "rejected"]
    /\ UNCHANGED <<env, now, portals, suite, service, ctor, consoleLog, calls, handlerLog,
                   probes, checkouts, requests>>

\* fetchActiveProducts resumes after the await: rethrow, or map and return
FetchActiveProductsResume(f) ==
    /\ fetches[f].pc = "awaiting"
    /\ fetches[f].list \in {"resolved", "rejected"}
    /\ LET r == IF fetches[f].list = "rejected"
                THEN [pc |-> "rejected", error |-> "ProviderRequestError", result |-> << >>]
                ELSE MapProducts(fetches[f].data)
       IN fetches' = [fetches EXCEPT ![f].pc = r.pc, ![f].error = r.error,
                                    ![f].result = r.result]
    /\ UNCHANGED <<env, now, portals, suite, service, ctor, consoleLog, calls, handlerLog,
                   probes, checkouts, requests>>

\* ---------------------------------------------- createCheckoutSession
UserIdMetadata(userId) == [isNull |-> FALSE, entries |-> {<<"userId", userId>>}]

\* mutation: the userId is put on the subscription only, not on the session
CheckoutRequest_NoSessionMetadata(userId, priceId, successUrl, cancelUrl) ==
    [payment_method_types |-> <<"card">>,
     line_items |-> <<[price |-> priceId, quantity |-> 1]>>,
     mode |-> "subscription",
     success_url |-> successUrl,
     cancel_url |-> cancelUrl,
     metadata |-> [isNull |-> FALSE, entries |-> {}],
     subscription_data |-> [metadata |-> UserIdMetadata(userId)]]

\* lines 79-87: the parameters of checkout.sessions.create
CheckoutRequest(userId, priceId, successUrl, cancelUrl) ==
    [payment_method_types |-> <<"card">>,
     line_items |-> <<[price |-> priceId, quantity |-> 1]>>,
     mode |-> "subscription",
     success_url |-> successUrl,
     cancel_url |-> cancelUrl,
     metadata |-> UserIdMetadata(userId),
     subscription_data |-> [metadata |-> UserIdMetadata(userId)]]

PriceIds == {"price_gbedu"}

SuccessUrl == "http://localhost:9002/success"

CancelUrl == "http://localhost:9002/cancel"

\* createCheckoutSession up to `await this.stripe.checkout.sessions.create`
CreateCheckoutSession(userId, priceId, successUrl, cancelUrl) ==
    /\ service.exists
    /\ Len(checkouts) < MaxSessions
    /\ requests' = Append(requests, CheckoutRequest(userId, priceId, successUrl, cancelUrl))
    /\ checkouts' = Append(checkouts,
           [userId |-> userId, priceId |-> priceId, pc |-> "awaiting",
            request |-> Len(requests) + 1, error |-> "none"])
    /\ UNCHANGED <<env, now, portals, fetches, suite, service, ctor, consoleLog, calls, handlerLog, probes>>

\* the provider creates the session; createCheckoutSession returns it
ProviderCreatesSession(k) ==
    /\ k \in 1..Len(checkouts)
    /\ checkouts[k].pc = "awaiting"
    /\ checkouts' = [checkouts EXCEPT ![k].pc = "resolved"]
    /\ UNCHANGED <<env, now, portals, fetches, suite, service, ctor, consoleLog, calls, handlerLog,
                   probes, requests>>

\* the provider refuses the request; createCheckoutSession rethrows
ProviderRejectsSession(k) ==
    /\ k \in 1..Len(checkouts)
    /\ checkouts[k].pc = "awaiting"
    /\ checkouts' = [checkouts EXCEPT ![k].pc = "rejected",
                                      ![k].error = "ProviderRequestError"]
    /\ UNCHANGED <<env, now, portals, fetches, suite, service, ctor, consoleLog, calls, handlerLog,
                   probes, requests>>

\* the k-th session as the provider stores it: the metadata of its request
CreatedSession(k) ==
    [id |-> SessionId(k), metadata |-> requests[checkouts[k].request].metadata]

\* the body of the checkout.session.completed webhook for the k-th session
CompletionBody(k) ==
    [raw |-> [type |-> "checkout.session.completed", object |-> CreatedSession(k)]]

\* the provider signs what it sends with the signing secret of the endpoint,
\* which the adapter's configured secret may or may not match
ProviderSignaturesFor(body) == {SignatureHeader(s, now, body) : s \in Secrets}

CompletionBodies ==
    {CompletionBody(k) : k \in {j \in 1..Len(checkouts) : checkouts[j].pc = "resolved"}}

\* ------------------------------------------------ createPortalSession
\* lines 123-126: the parameters of billingPortal.sessions.create
PortalRequest(customerId, returnUrl) ==
    [customer |-> customerId, return_url |-> returnUrl]

\* createPortalSession up to `await this.stripe.billingPortal.sessions.create`
CreatePortalSession(customerId, returnUrl) ==
    /\ service.exists
    /\ Len(portals) < MaxPortals
    /\ portals' = Append(portals,
           [request |-> PortalRequest(customerId, returnUrl), pc |-> "awaiting",
            error |-> "none"])
    /\ UNCHANGED <<env, now, suite, service, ctor, consoleLog, calls, handlerLog,
                   probes, checkouts, requests, fetches>>

\* the provider answers; createPortalSession returns the session or rethrows
ProviderAnswersPortal(k, ok) ==
    /\ k \in 1..Len(portals)
    /\ portals[k].pc = "awaiting"
    /\ portals' = [portals EXCEPT
           ![k].pc = IF ok THEN "resolved" ELSE "rejected",
           ![k].error = IF ok THEN "none" ELSE "ProviderRequestError"]
    /\ UNCHANGED <<env, now, suite, service, ctor, consoleLog, calls, handlerLog,
                   probes, checkouts, requests, fetches>>

\* ---------------------------------------------------------- the clock
Tick ==
    /\ now < MaxTime
    /\ now' = now + 1
    /\ UNCHANGED <<env, suite, service, ctor, consoleLog, calls, handlerLog,
                   probes, checkouts, requests, fetches, portals>>

\* ------------------------------------------------ the integration suite
\* JavaScript truthiness of process.env values
TruthyKey(v) == v.set /\ v.val # EmptyKey

TruthySecret(v) == v.set /\ v.val # ""

\* part_001 lines 15-22: itIfKey and config
SuiteItIfKey(e) == IF TruthyKey(e.STRIPE_SECRET_KEY) THEN "it" ELSE "it.skip"

SuiteConfig(e) ==
    [apiKey |-> IF TruthyKey(e.STRIPE_SECRET_KEY)
                THEN e.STRIPE_SECRET_KEY.val ELSE DummyKey,
     webhookSecret |-> IF TruthySecret(e.STRIPE_WEBHOOK_SECRET)
                       THEN e.STRIPE_WEBHOOK_SECRET.val ELSE "dummy_wh",
     appVersion |-> "1.0.2",
     requiredStripeVersion |-> "2025-01-27.acacia"]

\* the describe callback: lines 11-25, then the five itIfKey registrations;
\* a throw from `new StripeService(config)` ends it before any registration
DescribeBlock ==
    /\ suite.state = "notrun"
    /\ ctor.state = "none"
    /\ LET config == SuiteConfig(env)
           r == Constructor(config, "ok")
       IN /\ consoleLog' = consoleLog \o r.log
          /\ ctor' = [state |-> IF r.thrown = "none" THEN "ok" ELSE "threw",
                      thrown |-> r.thrown, config |-> config]
          /\ service' = IF r.thrown = "none"
                        THEN [exists |-> TRUE, config |-> config]
                        ELSE service
          /\ suite' = IF r.thrown = "none"
                      THEN [state |-> "collected", itIfKey |-> SuiteItIfKey(env),
                            error |-> "none", config |-> config,
                            tests |-> [i \in Tests |-> "pending"]]
                      ELSE [state |-> "failed", itIfKey |-> SuiteItIfKey(env),
                            error |-> r.thrown, config |-> config,
                            tests |-> [i \in Tests |-> "unregistered"]]
    /\ UNCHANGED <<env, now, portals, fetches, calls, handlerLog, probes, checkouts, requests>>

\* jest runs the registered tests in order: a test registered with it.skip is
\* skipped, one registered with it passes or fails on the live provider
RunTest(i, providerOk) ==
    /\ suite.state = "collected"
    /\ suite.tests[i] = "pending"
    /\ \A j \in Tests : j < i => suite.tests[j] # "pending"
    /\ suite' = [suite EXCEPT !.tests[i] =
           IF suite.itIfKey = "it.skip" THEN "skipped"
           ELSE IF providerOk THEN "passed" ELSE "failed"]
    /\ UNCHANGED <<env, now, portals, fetches, service, ctor, consoleLog, calls, handlerLog, probes,
                   checkouts, requests>>

Next ==
    \/ \E config \in Configs, sdk \in {"ok", "throws"} : NewStripeService(config, sdk)
    \/ \E c \in Calls, body \in Bodies :
         \E signature \in SignaturesFor(body) :
            \/ HandleWebhookBadSignature(c, body, signature)
            \/ HandleWebhookFiltered(c, body, signature)
            \/ HandleWebhookFulfill(c, body, signature)
    \/ \E c \in Calls : HandlerFulfills(c)
    \/ \E c \in Calls, e \in HandlerErrors : HandlerRejects(c, e)
    \/ \E c \in Calls : HandleWebhookResume(c)

Spec == Init /\ [][Next]_vars

\* the adapter used as a connectivity probe
NextProbe ==
    \/ \E config \in Configs, sdk \in {"ok", "throws"} : NewStripeService(config, sdk)
    \/ \E p \in Probes : VerifyConnectionStart(p)
    \/ \E p \in Probes : BalanceResolves(p)
    \/ \E p \in Probes, thrown \in ThrownValues : BalanceRejects(p, thrown)
    \/ \E p \in Probes : VerifyConnectionResume(p)

SpecProbe == Init /\ [][NextProbe]_vars

\* checkout sessions created through the adapter, completed at the provider
\* and delivered back to handleWebhook
NextCheckout ==
    \/ \E config \in Configs, sdk \in {"ok", "throws"} : NewStripeService(config, sdk)
    \/ \E userId \in UserIds, priceId \in PriceIds :
         CreateCheckoutSession(userId, priceId, SuccessUrl, CancelUrl)
    \/ \E k \in 1..MaxSessions : ProviderCreatesSession(k)
    \/ \E k \in 1..MaxSessions : ProviderRejectsSession(k)
    \/ \E c \in 1..MaxDeliveries, body \in CompletionBodies :
         \E signature \in ProviderSignaturesFor(body) :
            \/ HandleWebhookBadSignature(c, body, signature)
            \/ HandleWebhookFiltered(c, body, signature)
            \/ HandleWebhookFulfill(c, body, signature)
    \/ \E c \in Calls : HandlerFulfills(c)
    \/ \E c \in Calls, e \in HandlerErrors : HandlerRejects(c, e)
    \/ \E c \in Calls : HandleWebhookResume(c)

SpecCheckout == Init /\ [][NextCheckout]_vars

\* the adapter used to read the catalog
NextCatalog ==
    \/ \E config \in Configs, sdk \in {"ok", "throws"} : NewStripeService(config, sdk)
    \/ \E f \in Fetches : FetchActiveProductsStart(f)
    \/ \E f \in Fetches, catalog \in Catalogs : ProductsListResolves(f, catalog)
    \/ \E f \in Fetches : ProductsListRejects(f)
    \/ \E f \in Fetches : FetchActiveProductsResume(f)

SpecCatalog == Init /\ [][NextCatalog]_vars

\* the same request delivered again and again to one adapter, the clock
\* running and the other operations of the adapter called in between
RedeliveredBodies ==
    {b \in Bodies : /\ b.raw.object.metadata.entries = {<<"userId", "u1">>}}

OtherOps ==
    Cardinality({p \in Probes : probes[p].pc # "idle"})
    + Cardinality({f \in Fetches : fetches[f].pc # "idle"})
    + Len(checkouts) + Len(portals)

NextIdem ==
    \/ \E config \in Configs, sdk \in {"ok", "throws"} : NewStripeService(config, sdk)
    \/ \E body \in RedeliveredBodies : \E signature \in SignaturesFor(body) :
            \/ HandleWebhookBadSignature(1, body, signature)
            \/ HandleWebhookFiltered(1, body, signature)
            \/ HandleWebhookFulfill(1, body, signature)
    \/ \E c \in Calls \ {1} :
            \/ HandleWebhookBadSignature(c, calls[1].body, calls[1].signature)
            \/ HandleWebhookFiltered(c, calls[1].body, calls[1].signature)
            \/ HandleWebhookFulfill(c, calls[1].body, calls[1].signature)
    \/ \E c \in Calls : HandlerFulfills(c)
    \/ \E c \in Calls : HandlerRejects(c, "FirestoreUnavailable")
    \/ \E c \in Calls : HandleWebhookResume(c)
    \/ Tick
    \/ /\ OtherOps < MaxOtherOps
       /\ \/ \E p \in Probes : VerifyConnectionStart(p)
          \/ \E f \in Fetches : FetchActiveProductsStart(f)
          \/ CreateCheckoutSession("u1", "price_gbedu", SuccessUrl, CancelUrl)
          \/ CreatePortalSession("cus_abc123", "http://localhost:9002/profile")
    \/ \E p \in Probes : BalanceResolves(p)
    \/ \E p \in Probes : BalanceRejects(p,
            [nullish |-> FALSE,
             message |-> [defined |-> TRUE, val |-> "Invalid API Key provided"]])
    \/ \E p \in Probes : VerifyConnectionResume(p)
    \/ \E f \in Fetches : ProductsListResolves(f, << >>)
    \/ \E f \in Fetches : ProductsListRejects(f)
    \/ \E f \in Fetches : FetchActiveProductsResume(f)
    \/ \E k \in 1..MaxSessions : ProviderCreatesSession(k)
    \/ \E k \in 1..MaxSessions : ProviderRejectsSession(k)
    \/ \E k \in 1..MaxPortals, ok \in BOOLEAN : ProviderAnswersPortal(k, ok)

SpecIdem == Init /\ [][NextIdem]_vars

\* the integration test file run by jest under some environment
EnvKeys ==
    {KeyUnset} \cup {[set |-> TRUE, val |-> k] : k \in {EmptyKey, SkTestKey, PkKey}}

EnvSecrets == {SecretUnset, [set |-> TRUE, val |-> "whsec_1"]}

InitSuite ==
    /\ env \in [STRIPE_SECRET_KEY : EnvKeys, STRIPE_WEBHOOK_SECRET : EnvSecrets]
    /\ InitRest

NextSuite ==
    \/ DescribeBlock
    \/ \E i \in Tests, providerOk \in BOOLEAN : RunTest(i, providerOk)

SpecSuite == InitSuite /\ [][NextSuite]_vars

TypeOK ==
    /\ service.exists \in BOOLEAN
    /\ \A c \in Calls : calls[c].pc \in {"idle", "awaiting", "resolved", "rejected"}

\* ------------------------------------------------ vocabulary of the claims
Started(c) == calls[c].pc # "idle"

\* the request was signed over exactly this body, with the configured secret,
\* and was received inside the tolerance window
ValidlySigned(c) ==
    /\ calls[c].signature =
         SignatureHeader(service.config.webhookSecret, calls[c].signature.t, calls[c].body)
    /\ calls[c].at <= calls[c].signature.t

\* the event the request carries
Delivered(c) == calls[c].body.raw

IsCompleted(c) == Delivered(c).type = "checkout.session.completed"

HasUserIdEntry(c) ==
    /\ ~Delivered(c).object.metadata.isNull
    /\ \E p \in Delivered(c).object.metadata.entries : p[1] = "userId"

UserIdEntry(c) ==
    (CHOOSE p \in Delivered(c).object.metadata.entries : p[1] = "userId")[2]

InvocationsOf(c) == {i \in 1..Len(handlerLog) : handlerLog[i].call = c}

\* ------------------------------------------------------------------ C1
\* C1: a call whose signature verification fails is rejected with the
\* verification error, returns no event and never invokes the handler; every
\* handler invocation belongs to a call whose verification succeeded.
C1_BadSignatureRejects ==
    /\ \A c \in Calls : (Started(c) /\ ~ValidlySigned(c)) =>
          /\ calls[c].pc = "rejected"
          /\ calls[c].error = "SignatureVerificationError"
          /\ calls[c].returned = NoEvent
          /\ calls[c].handler = "none"
          /\ InvocationsOf(c) = {}
    /\ \A i \in 1..Len(handlerLog) : ValidlySigned(handlerLog[i].call)

C1_Witness ==
    \E c, d \in Calls :
        /\ Started(c) /\ ~ValidlySigned(c)
        /\ IsCompleted(c) /\ HasUserIdEntry(c) /\ UserIdEntry(c) = "u1"
        /\ calls[c].error = "SignatureVerificationError"
        /\ InvocationsOf(d) # {}

\* ------------------------------------------------------------------ C2
\* C2 as stated: every verified checkout.session.completed event whose
\* metadata has a userId entry, whatever its string value, has the handler
\* invoked exactly once with that userId and the event's session.
C2_AnyUserIdFulfilled ==
    \A c \in Calls :
        (Started(c) /\ ValidlySigned(c) /\ IsCompleted(c) /\ HasUserIdEntry(c)) =>
            /\ Cardinality(InvocationsOf(c)) = 1
            /\ \A i \in InvocationsOf(c) :
                  /\ handlerLog[i].userId = UserIdEntry(c)
                  /\ handlerLog[i].session = Delivered(c).object

\* C2 amended: the same, for every non-empty string value of the userId entry.
C2_NonEmptyUserIdFulfilled ==
    \A c \in Calls :
        (/\ Started(c) /\ ValidlySigned(c) /\ IsCompleted(c)
         /\ HasUserIdEntry(c) /\ UserIdEntry(c) # "") =>
            /\ Cardinality(InvocationsOf(c)) = 1
            /\ \A i \in InvocationsOf(c) :
                  /\ handlerLog[i].userId = UserIdEntry(c)
                  /\ handlerLog[i].session = Delivered(c).object

C2_Witness ==
    \E c \in Calls :
        /\ Started(c) /\ ValidlySigned(c) /\ IsCompleted(c)
        /\ HasUserIdEntry(c) /\ UserIdEntry(c) = "u2"
        /\ \E i \in InvocationsOf(c) : handlerLog[i].userId = "u2"

\* ------------------------------------------------------------------ C3
\* C3: the handler is invoked only for a verified checkout.session.completed
\* event whose metadata carries a userId; a completed event with no metadata
\* or no userId, and an event of any other type, never invokes the handler
\* and the call raises no error.
C3_HandlerOnlyForCompletedWithUserId ==
    \A c \in Calls :
        /\ InvocationsOf(c) # {} =>
              /\ ValidlySigned(c)
              /\ IsCompleted(c)
              /\ HasUserIdEntry(c)
        /\ (Started(c) /\ ValidlySigned(c) /\ ~(IsCompleted(c) /\ HasUserIdEntry(c))) =>
              /\ InvocationsOf(c) = {}
              /\ calls[c].handler = "none"
              /\ calls[c].pc = "resolved"
              /\ calls[c].error = "none"

C3_Witness ==
    \E c, d \in Calls :
        /\ Started(c) /\ ValidlySigned(c) /\ ~IsCompleted(c)
        /\ HasUserIdEntry(c) /\ UserIdEntry(c) = "u1"
        /\ calls[c].pc = "resolved"
        /\ Started(d) /\ ValidlySigned(d) /\ IsCompleted(d)
        /\ Delivered(d).object.metadata.isNull
        /\ calls[d].pc = "resolved"

\* ------------------------------------------------------------------ C4
\* C4: a call that completes without failure returns exactly the event that
\* verification produced, and when the handler ran the call has returned only
\* after the handler completed.
C4_ReturnsVerifiedEvent ==
    \A c \in Calls :
        calls[c].pc = "resolved" =>
            /\ ValidlySigned(c)
            /\ calls[c].returned = Delivered(c)
            /\ InvocationsOf(c) # {} => calls[c].handler = "fulfilled"

C4_Witness ==
    \E c, d \in Calls :
        /\ calls[c].pc = "resolved" /\ calls[c].handler = "fulfilled"
        /\ calls[c].returned = Delivered(c)
        /\ calls[d].pc = "resolved" /\ calls[d].handler = "none"

\* ------------------------------------------------------------------ C5
\* C5: when the handler fails, the call fails with the handler's own error,
\* returns no event, and the handler was invoked exactly once in that call.
C5_HandlerErrorPropagates ==
    \A c \in Calls :
        calls[c].handler = "rejected" =>
            /\ calls[c].pc \in {"awaiting", "rejected"}
            /\ calls[c].returned = NoEvent
            /\ calls[c].pc = "rejected" => calls[c].error = calls[c].handlerError
            /\ Cardinality(InvocationsOf(c)) = 1

C5_Witness ==
    \E c \in Calls :
        /\ calls[c].handler = "rejected"
        /\ calls[c].pc = "rejected"
        /\ calls[c].error = "RoleGrantFailed"

\* ------------------------------------------------------------------ C6
\* C6: constructing with an apiKey that lacks the sk_ prefix throws and leaves
\* no adapter to call operations on; constructing with a prefixed apiKey
\* succeeds and writes the diagnostic line exactly once.
HasSecretKeyPrefix(key) ==
    /\ Len(key) >= 3
    /\ key[1] = "s" /\ key[2] = "k" /\ key[3] = "_"

C6_ConstructionValidatesKey ==
    /\ ctor.state # "none" =>
          IF HasSecretKeyPrefix(ctor.config.apiKey)
          THEN /\ ctor.state = "ok"
               /\ service.exists /\ service.config = ctor.config
               /\ consoleLog = <<ctor.config.appVersion>>
          ELSE /\ ctor.state = "threw"
               /\ ctor.thrown \in {"InvalidSecretKey", "StripeSdkError"}
               /\ ~service.exists
    /\ \A c \in Calls : Started(c) =>
          service.exists /\ HasSecretKeyPrefix(service.config.apiKey)

C6_Witness ==
    /\ ctor.state = "threw"
    /\ ctor.config.apiKey = DummyKey
    /\ ctor.thrown = "InvalidSecretKey"
    /\ ~service.exists

\* ------------------------------------------------------------------ C7
\* C7: verifyConnection never throws; after a successful balance call it
\* returns status connected with the configured apiVersion and appVersion,
\* and after a balance call that failed with any thrown value it returns
\* status error with a non-empty message.
C7_ProbeNeverThrows ==
    \A p \in Probes :
        /\ probes[p].pc # "threw"
        /\ (probes[p].pc = "returned" /\ probes[p].balance = "resolved") =>
              /\ probes[p].result.status = "connected"
              /\ probes[p].result.apiVersion = service.config.requiredStripeVersion
              /\ probes[p].result.appVersion = service.config.appVersion
        /\ (probes[p].pc = "returned" /\ probes[p].balance = "rejected") =>
              /\ probes[p].result.status = "error"
              /\ probes[p].result.message.defined
              /\ probes[p].result.message.val # ""

\* ------------------------------------------------------------------ C8
\* the checkout whose session the call's event is about
CheckoutOf(c) ==
    {k \in 1..Len(checkouts) : Delivered(c).object.id = SessionId(k)}

RequestCarriesUserId ==
    /\ Len(requests) = Len(checkouts)
    /\ \A k \in 1..Len(checkouts) :
          /\ requests[k].metadata.entries = {<<"userId", checkouts[k].userId>>}
          /\ requests[k].subscription_data.metadata.entries =
                 {<<"userId", checkouts[k].userId>>}

\* C8 as stated: each createCheckoutSession call has issued exactly one
\* provider request carrying its userId in the session metadata and in the
\* subscription metadata, and for every userId the verified completion event
\* of that session has the handler invoked with that userId.
C8_UserIdRoundTrip ==
    /\ RequestCarriesUserId
    /\ \A c \in Calls : \A k \in CheckoutOf(c) :
          (Started(c) /\ ValidlySigned(c)) =>
              /\ Cardinality(InvocationsOf(c)) = 1
              /\ \A i \in InvocationsOf(c) : handlerLog[i].userId = checkouts[k].userId

\* C8 amended: the same, the handler being invoked for every non-empty userId.
C8_NonEmptyUserIdRoundTrip ==
    /\ RequestCarriesUserId
    /\ \A c \in Calls : \A k \in CheckoutOf(c) :
          (Started(c) /\ ValidlySigned(c) /\ checkouts[k].userId # "") =>
              /\ Cardinality(InvocationsOf(c)) = 1
              /\ \A i \in InvocationsOf(c) : handlerLog[i].userId = checkouts[k].userId

C8_Witness ==
    \E c \in Calls : \E k \in CheckoutOf(c) :
        /\ Started(c) /\ ValidlySigned(c)
        /\ checkouts[k].userId = "u2"
        /\ \E i \in InvocationsOf(c) : handlerLog[i].userId = "u2"
        /\ Len(checkouts) = 2 /\ checkouts[1].userId = "u1"

\* ----------------------------------------------------------------- C10
\* C10: with no STRIPE_SECRET_KEY in the environment the suite builds its
\* service with the apiKey dummy_key, raises no error while it is set up,
\* and every test it holds is skipped rather than run.
C10_SuiteSkipsWithoutKey ==
    (suite.state # "notrun" /\ ~env.STRIPE_SECRET_KEY.set) =>
        /\ suite.config.apiKey = DummyKey
        /\ suite.state = "collected"
        /\ suite.error = "none"
        /\ service.exists
        /\ \A i \in Tests : suite.tests[i] \in {"pending", "skipped"}

\* ----------------------------------------------------------------- C11
\* the products the claim keeps: active, with a default price in USD
UsdPriced(catalog) ==
    SelectSeq(catalog, LAMBDA product :
        /\ product.active
        /\ ~product.default_price.isNull
        /\ product.default_price.currency = "usd")

\* C11: once the provider has answered, fetchActiveProducts does not fail and
\* returns exactly one entry for each active product with a default price in
\* USD, in listing order: products priced in another currency or without a
\* default price are left out, every entry's currency usd is the currency of
\* its price, and its price is the minor-unit amount divided by 100.
C11_OnlyUsdDefaultPrices ==
    \A f \in Fetches :
        (fetches[f].list = "resolved" /\ fetches[f].pc # "awaiting") =>
            LET kept == UsdPriced(fetches[f].catalog)
            IN /\ fetches[f].pc = "resolved"
               /\ Len(fetches[f].result) = Len(kept)
               /\ \A k \in 1..Len(kept) :
                     /\ fetches[f].result[k].priceId = kept[k].default_price.id
                     /\ fetches[f].result[k].currency = kept[k].default_price.currency
                     /\ kept[k].default_price.unit_amount.val =
                            100 * fetches[f].result[k].price.units
                            + fetches[f].result[k].price.hundredths

\* ----------------------------------------------------------------- C12
SamePair(c, d) ==
    /\ Started(c) /\ Started(d)
    /\ calls[c].body = calls[d].body
    /\ calls[c].signature = calls[d].signature

VerificationFailed(c) == calls[c].error = "SignatureVerificationError"

SameOutcome(c, d) ==
    /\ VerificationFailed(c) <=> VerificationFailed(d)
    /\ ~VerificationFailed(c) => calls[c].event = calls[d].event

InsideWindow(c) == calls[c].at <= calls[c].signature.t

ConfigUntouched == service.exists => service.config = ctor.config

\* C12 as stated: two calls handed the same (body, signature) pair get the
\* same verification outcome, whatever the adapter did in between, and the
\* stored config is the one given to the constructor.
C12_SamePairSameOutcome ==
    /\ \A c, d \in Calls : SamePair(c, d) => SameOutcome(c, d)
    /\ ConfigUntouched

\* C12 amended: two calls handed the same pair get the same outcome when the
\* signature's timestamp is inside the tolerance window at both calls or
\* outside it at both; a pair that failed never verifies at a later call;
\* and the stored config is the one given to the constructor.
C12_SamePairSameOutcomeInWindow ==
    /\ \A c, d \in Calls : SamePair(c, d) =>
          /\ (InsideWindow(c) <=> InsideWindow(d)) => SameOutcome(c, d)
          /\ (calls[c].at <= calls[d].at /\ VerificationFailed(c)) => VerificationFailed(d)
    /\ ConfigUntouched

C12_Witness ==
    /\ SamePair(1, 2)
    /\ ~VerificationFailed(1) /\ ~VerificationFailed(2)
    /\ calls[1].event = calls[2].event
    /\ calls[1].event.type = "checkout.session.completed"
    /\ OtherOps > 0
    /\ \A p \in Probes : probes[p].pc \notin {"awaiting"}
    /\ \A k \in 1..Len(checkouts) : checkouts[k].pc # "awaiting"

\* ------------------------------------------------------------------ C9
\* C9: deliveries are independent: the handler has been invoked once for
\* each started call that carries a validly signed completed-checkout event
\* with a userId, never twice within a call, so N deliveries of one event
\* give N invocations.
DispatchingCalls ==
    {c \in Calls : /\ Started(c) /\ ValidlySigned(c) /\ IsCompleted(c)
                   /\ HasUserIdEntry(c) /\ UserIdEntry(c) # ""}

C9_NoDeduplication ==
    /\ \A c \in Calls : Cardinality(InvocationsOf(c)) <= 1
    /\ Len(handlerLog) = Cardinality(DispatchingCalls)
    /\ \A c \in DispatchingCalls : Cardinality(InvocationsOf(c)) = 1

\* every call delivers the same event and all handlers are running at once
C9_Witness ==
    /\ DispatchingCalls = Calls
    /\ \A c, d \in Calls : calls[c].body = calls[d].body
    /\ \A c \in Calls : calls[c].handler = "running"
    /\ Len(handlerLog) = MaxCalls

====
